---- MODULE Spec2Model ----
(***************************************************************************)
(* Model of github.com/barsanuphe/helpers: the interactive prompts of      *)
(* package ui (SelectOption, UpdateValue, runCommand), the spinner of      *)
(* SpinWhileThingsHappen, the filesystem helpers (DeleteEmptyFolders,      *)
(* GetUniqueTimestampedFilename, CopyFile) and the string-slice helpers.   *)
(*                                                                         *)
(* Every function is an independent operation, so each has its own         *)
(* specification (SpecSelect, SpecUpdate, ...) over its own variables; the *)
(* variables of the other functions are parked at their idle values.       *)
(*                                                                         *)
(* A Go string is a sequence of chunks; a chunk is one character, or an    *)
(* indivisible fragment (a colour escape code, the text of a tag).         *)
(***************************************************************************)
EXTENDS Integers, Sequences, FiniteSets, TLC

VARIABLES
    \* ---- ui.SelectOption
    sel_input,       \* the options argument as passed by the caller
    sel_longField,   \* the longField argument
    options,         \* the options slice after RemoveDuplicates (as displayed)
    sel_errs,        \* errs
    sel_choice,      \* the last answer read by GetInput
    sel_iters,       \* number of prompt iterations started
    sel_pc,          \* "idle", "prompt", "returned"
    sel_ret,         \* returned string
    sel_reterr,      \* returned error ("nil" when nil)
    \* ---- ui.UpdateValue
    upd_oldValue,    \* the oldValue argument
    upd_longField,   \* the longField argument
    upd_errs,        \* errs
    upd_validChoice, \* validChoice
    upd_newValue,    \* newValue (named result)
    upd_failed,      \* number of attempts that did not produce a value
    upd_pc,          \* "idle", "prompt", "returned"
    upd_ret,         \* returned string
    upd_reterr,      \* returned error ("nil" when nil)
    \* ---- helpers.SpinWhileThingsHappen
    spin_pcMain,     \* "idle", "select", "returned"
    spin_pcSpinner,  \* first goroutine: "idle", "range" (waits for a tick), "send" (c1 <- true)
    spin_pcWorker,   \* second goroutine: "idle", "call", "inF", "send" (c2 <- result), "done"
    tickerC,         \* number of ticks buffered in ticker.C (capacity 1)
    fCalls,          \* number of times f has been called
    fResult,         \* what f returned ("none" before it returns, "nil" for a nil error)
    functionDone,    \* functionDone
    spin_err,        \* the named result err of SpinWhileThingsHappen
    spin_ret,        \* the value SpinWhileThingsHappen returned ("none" before)
    frame,           \* position of the spinner s
    \* ---- helpers.DeleteEmptyFolders
    del_fs0,                     \* the tree under root when DeleteEmptyFolders is called
    del_fs,                      \* the tree under root: path -> "none", "dir", "file"
    del_todo,                    \* filepath.Walk: the paths still to visit, next first
    deletedDirectories,          \* deletedDirectories
    deletedDirectoriesThisTime,  \* deletedDirectoriesThisTime
    atLeastOnce,                 \* atLeastOnce
    del_passes,                  \* number of passes (calls of filepath.Walk) started
    del_pc,                      \* "idle", "loop", "walk", "done"
    \* ---- helpers.GetUniqueTimestampedFilename
    uniq_dir,         \* state of dir: "exists", "missing", "uncreatable"
    uniq_files,       \* the names of the regular files in dir
    attempts,         \* attempts
    uniqueNameFound,  \* uniqueNameFound
    uniqueFilename,   \* uniqueFilename (named result)
    uniq_err,         \* err (named result)
    uniq_pc,          \* "idle", "start", "loop", "body", "done"
    \* ---- helpers.CopyFile
    cp_src,      \* the src argument (a path)
    cp_dst,      \* the dst argument (a path)
    cp_links0,   \* the directory entries when CopyFile is called
    cp_inodes0,  \* the files when CopyFile is called
    cp_links,    \* directory entries: path -> inode number, 0 when the path does not exist
    cp_inodes,   \* files: inode number -> [kind, data]
    cp_in,       \* copyFileContents: inode open as in (0: none)
    cp_out,      \* copyFileContents: inode open as out (0: none)
    cp_off,      \* io.Copy: number of bytes of in read so far
    cp_err,      \* err (named result)
    cp_pc,       \* "idle", "stat", "open", "create", "copy", "sync", "done"
    \* ---- helpers.RemoveDuplicates, ui.RemoveDuplicates, helpers.StringInSlice
    sl_in,       \* the slice handed to the functions
    sl_others,   \* otherStringsToClean
    sl_a,        \* the string looked for
    sl_out,      \* *options of helpers.RemoveDuplicates
    sl_outUi,    \* *options of ui.RemoveDuplicates
    sl_calls,    \* number of times RemoveDuplicates was applied to the slice
    sl_index,    \* index returned by StringInSlice
    sl_isIn,     \* isIn returned by StringInSlice
    sl_pc,       \* "idle", "ready", "searched"
    \* ---- ui.runCommand
    cmd_pcMain,      \* "idle", "select", "closeD", "closeStdin", "recvC", "returned"
    cmd_pcPager,     \* first goroutine: "idle", "run" (in cmd.Run), "send" (c <- result), "close", "done"
    cmd_pcWriter,    \* second goroutine: "idle", "write" (in io.WriteString), "send" (d <- err), "close", "done"
    cmd_toWrite,     \* chunks of output the pager has not read from the pipe yet
    cmd_cClosed,     \* channel c is closed
    cmd_dClosed,     \* channel d is closed
    cmd_stdinClosed, \* the write end of the pipe is closed
    cmd_runResult,   \* what cmd.Run returned ("none" before, "nil" for a nil error)
    cmd_ret,         \* what runCommand returned ("none" before)
    cmd_panic        \* the runtime panic that ended the program ("none" if none)

selVars == <<sel_input, sel_longField, options, sel_errs, sel_choice, sel_iters,
             sel_pc, sel_ret, sel_reterr>>
updVars == <<upd_oldValue, upd_longField, upd_errs, upd_validChoice, upd_newValue,
             upd_failed, upd_pc, upd_ret, upd_reterr>>
spinVars == <<spin_pcMain, spin_pcSpinner, spin_pcWorker, tickerC, fCalls, fResult,
              functionDone, spin_err, spin_ret, frame>>
delVars == <<del_fs0, del_fs, del_todo, deletedDirectories, deletedDirectoriesThisTime,
             atLeastOnce, del_passes, del_pc>>
uniqVars == <<uniq_dir, uniq_files, attempts, uniqueNameFound, uniqueFilename, uniq_err, uniq_pc>>
cpVars == <<cp_src, cp_dst, cp_links0, cp_inodes0, cp_links, cp_inodes, cp_in, cp_out,
            cp_off, cp_err, cp_pc>>
slVars == <<sl_in, sl_others, sl_a, sl_out, sl_outUi, sl_calls, sl_index, sl_isIn, sl_pc>>
cmdVars == <<cmd_pcMain, cmd_pcPager, cmd_pcWriter, cmd_toWrite, cmd_cClosed, cmd_dClosed,
             cmd_stdinClosed, cmd_runResult, cmd_ret, cmd_panic>>
vars == <<selVars, updVars, spinVars, delVars, uniqVars, cpVars, slVars, cmdVars>>

(***************************************************************************)
(* Bounds of the model.                                                    *)
(***************************************************************************)
\* longest options list handed to SelectOption
MaxOptions == 2
\* UpdateValue is followed for at most this many failed attempts
MaxFailed == 13
\* number of frames of the spinner animation
Frames == 10
\* deepest nesting of the directory trees handed to DeleteEmptyFolders
Depth == 2
\* most candidate names already taken in the directory of GetUniqueTimestampedFilename
MaxExisting == 52
\* longest file contents, in bytes, handed to CopyFile
MaxLen == 2
\* longest slice handed to RemoveDuplicates and StringInSlice
MaxList == 3
\* most chunks of output handed to runCommand
MaxOutput == 4

(***************************************************************************)
(* Strings (package strings, strconv).                                     *)
(***************************************************************************)
Letters == {"a", "b", "e", "k", "x", "y", "n", "s", "o", "t", "w"}
Capitals == {"A", "B", "E", "K", "X", "Y", "N", "S", "O", "T", "W"}
UpperOf == [c \in Letters |->
              CASE c = "a" -> "A" [] c = "b" -> "B" [] c = "e" -> "E" [] c = "k" -> "K"
                [] c = "x" -> "X" [] c = "y" -> "Y" [] c = "n" -> "N" [] c = "s" -> "S"
                [] c = "o" -> "O" [] c = "t" -> "T" [] c = "w" -> "W"]
LowerOf == [c \in Capitals |-> CHOOSE l \in Letters : UpperOf[l] = c]

\* strings.ToUpper
ToUpper(s) == [i \in 1..Len(s) |-> IF s[i] \in Letters THEN UpperOf[s[i]] ELSE s[i]]
\* strings.ToLower
ToLower(s) == [i \in 1..Len(s) |-> IF s[i] \in Capitals THEN LowerOf[s[i]] ELSE s[i]]

RECURSIVE TrimLeft(_)
TrimLeft(s) == IF s # <<>> /\ Head(s) = " " THEN TrimLeft(Tail(s)) ELSE s
RECURSIVE TrimRight(_)
TrimRight(s) == IF s # <<>> /\ s[Len(s)] = " " THEN TrimRight(SubSeq(s, 1, Len(s) - 1)) ELSE s
\* strings.TrimSpace
TrimSpace(s) == TrimRight(TrimLeft(s))

\* whether old is a prefix of s
HasPrefix(s, old) == Len(old) <= Len(s) /\ SubSeq(s, 1, Len(old)) = old
RECURSIVE ReplaceAll(_, _)
\* strings.Replace(s, old, "", -1) for a non-empty old
ReplaceAll(s, old) ==
    IF s = <<>> THEN <<>>
    ELSE IF HasPrefix(s, old) THEN ReplaceAll(SubSeq(s, Len(old) + 1, Len(s)), old)
    ELSE <<Head(s)>> \o ReplaceAll(Tail(s), old)

Digits == {"0", "1", "2", "3", "4", "5", "6", "7", "8", "9"}
DigitVal(c) == CHOOSE n \in 0..9 : ToString(n) = c
RECURSIVE DigitsVal(_, _)
DigitsVal(s, acc) == IF s = <<>> THEN acc ELSE DigitsVal(Tail(s), acc * 10 + DigitVal(Head(s)))
\* strconv.Atoi: an optional sign, then one or more decimal digits
\* (the answers of the model are far from the int range)
Atoi(s) ==
    LET signed == s # <<>> /\ Head(s) \in {"+", "-"}
        body == IF signed THEN Tail(s) ELSE s
        ok == body # <<>> /\ \A i \in 1..Len(body) : body[i] \in Digits
    IN  IF ~ok THEN [val |-> 0, err |-> "syntax"]
        ELSE [val |-> (IF signed /\ Head(s) = "-" THEN 0 - DigitsVal(body, 0)
                       ELSE DigitsVal(body, 0)),
              err |-> "nil"]
(***************************************************************************)
(* Package ui: constants, tags, RemoveDuplicates.                          *)
(***************************************************************************)
invalidChoice == "Invalid choice."
userAborted == "User aborted."
\* the error of a failed read of standard input (bufio ReadString)
EOF == "EOF"

LocalTag == <<"[current]", " ">>
OnlineTag == <<"[online/new]", " ">>
\* the colour wrappers of the logger: an escape code, the text, a reset code
CyanBold(s) == <<"ESC[36;1m">> \o s \o <<"ESC[0m">>
YellowBold(s) == <<"ESC[33;1m">> \o s \o <<"ESC[0m">>

\* UI.Tag
Tag(entry, isLocal) == IF isLocal THEN CyanBold(LocalTag) \o entry
                       ELSE YellowBold(OnlineTag) \o entry

\* UI.unTag
unTag(option) ==
    TrimSpace(ReplaceAll(ReplaceAll(option, CyanBold(LocalTag)), YellowBold(OnlineTag)))

\* the set of the elements of a slice
Elems(s) == {s[i] : i \in 1..Len(s)}

RECURSIVE UiRemoveDuplicatesLoop(_, _, _, _)
\* the loop of ui.RemoveDuplicates: arr is the backing array, found the map's
\* keys, i the 1-based range index, j the number of elements kept
UiRemoveDuplicatesLoop(arr, found, i, j) ==
    IF i > Len(arr) THEN SubSeq(arr, 1, j)
    ELSE LET x == arr[i] IN
         IF x \notin found /\ x # <<>>
         THEN UiRemoveDuplicatesLoop([arr EXCEPT ![j + 1] = arr[i]], found \cup {x}, i + 1, j + 1)
         ELSE UiRemoveDuplicatesLoop(arr, found, i + 1, j)
\* ui.RemoveDuplicates(&opts, others...): the value of *opts afterwards
UiRemoveDuplicates(opts, others) == UiRemoveDuplicatesLoop(opts, Elems(others), 1, 0)

(***************************************************************************)
(* ui.GetInput, ui.Accept, ui.Edit: what the user types is the input.      *)
(***************************************************************************)
\* UI.GetInput on a line read from standard input
GetInput(line) == [val |-> TrimSpace(line.val), err |-> line.err]
\* UI.Accept on the line the user answers with
Accept(line) ==
    LET in == GetInput(line) IN
    in.err = "nil" /\ in.val \in {<<"y">>, <<"Y">>, <<"y", "e", "s">>}
\* UI.Edit: the text the user leaves in the editor, or the editor's error
Edit(oldValue, saved) ==
    IF saved.err # "nil" THEN [val |-> oldValue, err |-> saved.err]
    ELSE [val |-> TrimSpace(saved.val), err |-> "nil"]

\* lines the user may answer a prompt with
Lines(texts) == {[val |-> t, err |-> "nil"] : t \in texts} \cup {[val |-> <<>>, err |-> EOF]}
ChoiceLines == Lines({<<"E">>, <<"e">>, <<"A">>, <<"a">>, <<"B">>, <<"b">>, <<"K">>, <<"k">>,
                      <<"0">>, <<"1">>, <<"2">>, <<"3">>, <<"4">>, <<" ", "2", " ">>,
                      <<"+", "1">>, <<"-", "1">>, <<"1", "x">>, <<>>})
EditLines == Lines({<<>>, <<"x">>, <<" ", "y">>})
AcceptLines == Lines({<<"Y">>, <<"y", "e", "s">>, <<"n">>, <<"Y", "E", "S">>})

(***************************************************************************)
(* ui.SelectOption                                                         *)
(***************************************************************************)
OptionStrings == {<<>>, <<"x">>, <<"x", " ">>, Tag(<<"x">>, TRUE), Tag(<<"y">>, FALSE)}
RECURSIVE SeqsUpTo(_, _)
\* the sequences over S of length at most n
SeqsUpTo(S, n) == IF n = 0 THEN {<<>>}
                  ELSE LET shorter == SeqsUpTo(S, n - 1) IN
                       shorter \cup {Append(s, x) : s \in shorter, x \in S}

Ret(val, err) == [kind |-> "return", val |-> val, err |-> err]
Retry == [kind |-> "retry", val |-> <<>>, err |-> "nil"]

\* the limit test with the comparison off by one
TooManyErrsOffByOne(errs) == errs >= 10
\* errs > 10
TooManyErrs(errs) == errs > 10

\* the index test taking the answer as a 0-based index
PickOptionZeroBased(opts, choice) ==
    LET a == Atoi(choice) IN
    IF a.err = "nil" /\ 0 <= a.val /\ a.val < Len(opts) THEN Ret(unTag(opts[a.val + 1]), "nil") ELSE Retry
\* the last branch of the if chain: a number that designates an option
PickOption(opts, choice) ==
    LET a == Atoi(choice) IN
    IF a.err = "nil" /\ 0 < a.val /\ a.val <= Len(opts) THEN Ret(unTag(opts[a.val]), "nil") ELSE Retry

\* the outcome of one pass through the if chain of the loop body
SelectOptionChoice(opts, longField, choice, editLine, acceptLine) ==
    IF ToUpper(choice) = <<"E">> THEN
        LET allVersions == <<>>  \* the text shown in the editor does not decide the outcome
            ed == IF longField THEN Edit(allVersions, editLine) ELSE GetInput(editLine)
        IN  IF ed.err # "nil" THEN Ret(<<>>, ed.err)
            ELSE IF Accept(acceptLine) THEN Ret(ed.val, "nil")
            ELSE Retry
    ELSE IF ToUpper(choice) = <<"A">> THEN Ret(<<>>, userAborted)
    ELSE IF ToUpper(choice) = <<"B">> THEN Ret(<<>>, "nil")
    ELSE PickOption(opts, choice)

SelInit ==
    /\ sel_input \in SeqsUpTo(OptionStrings, MaxOptions)
    /\ sel_longField \in BOOLEAN
    /\ options = UiRemoveDuplicates(sel_input, <<>>)
    /\ sel_errs = 0
    /\ sel_choice = <<>>
    /\ sel_iters = 0
    /\ sel_pc = "prompt"
    /\ sel_ret = <<>>
    /\ sel_reterr = "nil"

SelIdle ==
    /\ sel_input = <<>>
    /\ sel_longField = FALSE
    /\ options = <<>>
    /\ sel_errs = 0
    /\ sel_choice = <<>>
    /\ sel_iters = 0
    /\ sel_pc = "idle"
    /\ sel_ret = <<>>
    /\ sel_reterr = "nil"

\* the part of an iteration after the answer has been read
SelectOptionBody(choice, editLine, acceptLine) ==
    LET o == SelectOptionChoice(options, sel_longField, choice, editLine, acceptLine) IN
    /\ sel_choice' = choice
    /\ IF o.kind = "return"
       THEN /\ sel_pc' = "returned"
            /\ sel_ret' = o.val
            /\ sel_reterr' = o.err
            /\ sel_errs' = sel_errs
       ELSE /\ sel_errs' = sel_errs + 1
            /\ IF TooManyErrs(sel_errs + 1)
               THEN /\ sel_pc' = "returned"
                    /\ sel_ret' = <<>>
                    /\ sel_reterr' = invalidChoice
               ELSE UNCHANGED <<sel_pc, sel_ret, sel_reterr>>

\* one iteration of the prompt loop of SelectOption
SelectOptionLoop ==
    /\ sel_pc = "prompt"
    /\ sel_iters' = sel_iters + 1
    /\ UNCHANGED <<sel_input, sel_longField, options>>
    /\ \E line \in ChoiceLines :
         LET in == GetInput(line) IN
         IF in.err # "nil"
         THEN /\ sel_pc' = "returned"
              /\ sel_ret' = <<>>
              /\ sel_reterr' = in.err
              /\ sel_choice' = in.val
              /\ sel_errs' = sel_errs
         ELSE IF ToUpper(in.val) = <<"E">>
              THEN \E editLine \in EditLines, acceptLine \in AcceptLines :
                       SelectOptionBody(in.val, editLine, acceptLine)
              ELSE SelectOptionBody(in.val, [val |-> <<>>, err |-> "nil"], [val |-> <<>>, err |-> "nil"])

(***************************************************************************)
(* ui.UpdateValue                                                          *)
(***************************************************************************)
OldValues == {<<>>, <<"x">>, <<"x", " ">>, <<"y">>}

UpdInit ==
    /\ upd_oldValue \in OldValues
    /\ upd_longField \in BOOLEAN
    /\ upd_errs = 0
    /\ upd_validChoice = FALSE
    /\ upd_newValue = <<>>
    /\ upd_failed = 0
    /\ upd_pc = "prompt"
    /\ upd_ret = <<>>
    /\ upd_reterr = "nil"

UpdIdle ==
    /\ upd_oldValue = <<>>
    /\ upd_longField = FALSE
    /\ upd_errs = 0
    /\ upd_validChoice = FALSE
    /\ upd_newValue = <<>>
    /\ upd_failed = 0
    /\ upd_pc = "idle"
    /\ upd_ret = <<>>
    /\ upd_reterr = "nil"

\* return v, e
UpdReturn(v, e) ==
    /\ upd_pc' = "returned"
    /\ upd_ret' = v
    /\ upd_reterr' = e

\* case "e" of the switch, then the loop test
UpdateValueEdit(editLine, acceptLine) ==
    LET ed == IF upd_longField THEN Edit(upd_oldValue, editLine) ELSE GetInput(editLine) IN
    IF ed.err # "nil"
    THEN /\ UpdReturn(upd_newValue, ed.err)
         /\ UNCHANGED <<upd_errs, upd_validChoice, upd_newValue, upd_failed>>
    ELSE IF Accept(acceptLine)
    THEN /\ upd_newValue' = ed.val
         /\ upd_validChoice' = TRUE
         /\ UpdReturn(TrimSpace(ed.val), "nil")
         /\ UNCHANGED <<upd_errs, upd_failed>>
    ELSE /\ upd_failed' = upd_failed + 1
         /\ UNCHANGED <<upd_errs, upd_validChoice, upd_newValue, upd_pc, upd_ret, upd_reterr>>

\* case "k" of the switch, then the loop test
UpdateValueKeep ==
    /\ upd_newValue' = upd_oldValue
    /\ upd_validChoice' = TRUE
    /\ UpdReturn(TrimSpace(upd_oldValue), "nil")
    /\ UNCHANGED <<upd_errs, upd_failed>>

\* the default case of the switch
UpdateValueDefault ==
    /\ upd_errs' = upd_errs + 1
    /\ upd_failed' = upd_failed + 1
    /\ IF TooManyErrs(upd_errs + 1)
       THEN UpdReturn(<<>>, invalidChoice)
       ELSE UNCHANGED <<upd_pc, upd_ret, upd_reterr>>
    /\ UNCHANGED <<upd_validChoice, upd_newValue>>

\* one iteration of the prompt loop of UpdateValue
UpdateValueLoop ==
    /\ upd_pc = "prompt"
    /\ upd_failed < MaxFailed
    /\ UNCHANGED <<upd_oldValue, upd_longField>>
    /\ \E line \in ChoiceLines :
         LET in == GetInput(line) IN
         IF in.err # "nil"
         THEN /\ UpdReturn(upd_newValue, in.err)
              /\ UNCHANGED <<upd_errs, upd_validChoice, upd_newValue, upd_failed>>
         ELSE IF ToLower(in.val) = <<"e">>
              THEN \E editLine \in EditLines, acceptLine \in AcceptLines :
                       UpdateValueEdit(editLine, acceptLine)
         ELSE IF ToLower(in.val) = <<"k">> THEN UpdateValueKeep
         ELSE UpdateValueDefault

(***************************************************************************)
(* helpers.SpinWhileThingsHappen: the main flow, the spinner goroutine and *)
(* the worker goroutine, over the unbuffered channels c1 and c2.           *)
(***************************************************************************)
\* the errors f may return
FResults == {"nil", "f failed", "f failed otherwise"}

SpinInit ==
    /\ spin_pcMain = "select"
    /\ spin_pcSpinner = "range"
    /\ spin_pcWorker = "call"
    /\ tickerC = 0
    /\ fCalls = 0
    /\ fResult = "none"
    /\ functionDone = FALSE
    /\ spin_err = "nil"
    /\ spin_ret = "none"
    /\ frame = 0

SpinIdle ==
    /\ spin_pcMain = "idle"
    /\ spin_pcSpinner = "idle"
    /\ spin_pcWorker = "idle"
    /\ tickerC = 0
    /\ fCalls = 0
    /\ fResult = "none"
    /\ functionDone = FALSE
    /\ spin_err = "nil"
    /\ spin_ret = "none"
    /\ frame = 0

\* the ticker fires: a tick is buffered in ticker.C, or dropped when one is pending
Tick ==
    /\ spin_pcSpinner # "idle"
    /\ tickerC = 0
    /\ tickerC' = 1
    /\ UNCHANGED <<spin_pcMain, spin_pcSpinner, spin_pcWorker, fCalls, fResult,
                   functionDone, spin_err, spin_ret, frame>>

\* spinner goroutine: for range ticker.C receives a tick
SpinnerRange ==
    /\ spin_pcSpinner = "range"
    /\ tickerC = 1
    /\ tickerC' = 0
    /\ spin_pcSpinner' = "send"
    /\ UNCHANGED <<spin_pcMain, spin_pcWorker, fCalls, fResult, functionDone,
                   spin_err, spin_ret, frame>>

\* worker goroutine: f is called
WorkerCall ==
    /\ spin_pcWorker = "call"
    /\ spin_pcWorker' = "inF"
    /\ fCalls' = fCalls + 1
    /\ UNCHANGED <<spin_pcMain, spin_pcSpinner, tickerC, fResult, functionDone,
                   spin_err, spin_ret, frame>>

\* worker goroutine: f returns, the goroutine blocks on c2 <- result
WorkerReturn ==
    /\ spin_pcWorker = "inF"
    /\ \E r \in FResults : fResult' = r
    /\ spin_pcWorker' = "send"
    /\ UNCHANGED <<spin_pcMain, spin_pcSpinner, tickerC, fCalls, functionDone,
                   spin_err, spin_ret, frame>>

\* main: case <-c1, a rendezvous with the spinner goroutine
MainRecvTick ==
    /\ spin_pcMain = "select"
    /\ spin_pcSpinner = "send"
    /\ spin_pcSpinner' = "range"
    /\ frame' = (frame + 1) % Frames
    /\ UNCHANGED <<spin_pcMain, spin_pcWorker, tickerC, fCalls, fResult, functionDone,
                   spin_err, spin_ret>>

\* the value returned with a bare return in the error branch
SpinReturnValueBare(received, outer) == outer
\* the value returned once a result was received on c2: the received error by
\* "return err", the named result by the bare return after the loop
SpinReturnValue(received, outer) == IF received # "nil" THEN received ELSE outer

\* the case of c2 leaving the loop on an error only (functionDone is not set)
MainRecvResultNoExit ==
    /\ spin_pcMain = "select"
    /\ spin_pcWorker = "send"
    /\ spin_pcWorker' = "done"
    /\ functionDone' = functionDone
    /\ spin_ret' = IF fResult # "nil" THEN fResult ELSE spin_ret
    /\ spin_pcMain' = IF fResult # "nil" THEN "returned" ELSE "select"
    /\ UNCHANGED <<spin_pcSpinner, tickerC, fCalls, fResult, spin_err, frame>>

\* main: case err := <-c2, a rendezvous with the worker goroutine, then the return
MainRecvResult ==
    /\ spin_pcMain = "select"
    /\ spin_pcWorker = "send"
    /\ spin_pcWorker' = "done"
    /\ functionDone' = (fResult = "nil")
    /\ spin_ret' = SpinReturnValue(fResult, spin_err)
    /\ spin_pcMain' = "returned"
    /\ UNCHANGED <<spin_pcSpinner, tickerC, fCalls, fResult, spin_err, frame>>


(***************************************************************************)
(* helpers.DeleteEmptyFolders.  A path is the sequence of the names below  *)
(* root; root is the empty sequence.  Nothing else modifies the tree and   *)
(* os.Remove of an empty directory succeeds.                               *)
(***************************************************************************)
\* the entry names, in the lexical order in which filepath.Walk reads them
NameOrder == <<"a", "b">>
Names == Elems(NameOrder)
Paths == SeqsUpTo(Names, Depth)
root == <<>>
\* the paths of the subtree of p
Subtree(p) == {q \in Paths : Len(q) >= Len(p) /\ SubSeq(q, 1, Len(p)) = p}

\* the subtree of p with nothing in it
Absent(p) == [q \in Subtree(p) |-> "none"]
RECURSIVE Trees(_)
RECURSIVE Entries(_, _)
\* what may stand below directory p under its names from the i-th on
Entries(p, i) ==
    IF i > Len(NameOrder) THEN {<<>>}
    ELSE {t @@ rest : t \in Trees(Append(p, NameOrder[i])), rest \in Entries(p, i + 1)}
\* the trees that may stand at path p: nothing, a file, or a directory of trees
Trees(p) ==
    IF Len(p) = Depth THEN {(p :> k) : k \in {"none", "file", "dir"}}
    ELSE {Absent(p), (p :> "file") @@ Absent(p)}
         \cup {(p :> "dir") @@ below : below \in Entries(p, 1)}

\* readDirNames: the entries of directory p, sorted
ReadDirNames(fs, p) ==
    IF Len(p) = Depth THEN <<>>
    ELSE SelectSeq([i \in 1..Len(NameOrder) |-> Append(p, NameOrder[i])],
                   LAMBDA q : fs[q] # "none")
\* IsDirectoryEmpty
IsDirectoryEmpty(fs, p) == ReadDirNames(fs, p) = <<>>

\* the loop condition testing only atLeastOnce (a single pass)
DelLoopContinueOnce(once, thisTime) == ~once
\* the condition of the for loop
DelLoopContinue(once, thisTime) == ~once \/ thisTime # 0

\* the walk function: whether it removes path p, of kind kind
DelRemoves(fs, p, kind) ==
    /\ p # root
    /\ kind # "none"
    /\ kind = "dir"
    /\ IsDirectoryEmpty(fs, p)

DelInit ==
    /\ del_fs0 \in Trees(root)
    /\ del_fs = del_fs0
    /\ del_todo = <<>>
    /\ deletedDirectories = 0
    /\ deletedDirectoriesThisTime = 0
    /\ atLeastOnce = FALSE
    /\ del_passes = 0
    /\ del_pc = "loop"

DelIdle ==
    /\ del_fs0 = <<>>
    /\ del_fs = <<>>
    /\ del_todo = <<>>
    /\ deletedDirectories = 0
    /\ deletedDirectoriesThisTime = 0
    /\ atLeastOnce = FALSE
    /\ del_passes = 0
    /\ del_pc = "idle"

\* the loop condition holds: a pass starts, filepath.Walk(root, ...) is called
DelStartPass ==
    /\ del_pc = "loop"
    /\ DelLoopContinue(atLeastOnce, deletedDirectoriesThisTime)
    /\ atLeastOnce' = TRUE
    /\ deletedDirectoriesThisTime' = 0
    /\ del_todo' = <<root>>
    /\ del_passes' = del_passes + 1
    /\ del_pc' = "walk"
    /\ UNCHANGED <<del_fs0, del_fs, deletedDirectories>>

\* the loop condition fails: DeleteEmptyFolders returns
DelReturn ==
    /\ del_pc = "loop"
    /\ ~DelLoopContinue(atLeastOnce, deletedDirectoriesThisTime)
    /\ del_pc' = "done"
    /\ UNCHANGED <<del_fs0, del_fs, del_todo, deletedDirectories,
                   deletedDirectoriesThisTime, atLeastOnce, del_passes>>

\* filepath.Walk visits the next path: lstat, readDirNames for a directory, the
\* walk function, then the entries read are queued before the remaining paths
DelVisit ==
    /\ del_pc = "walk"
    /\ del_todo # <<>>
    /\ LET p == Head(del_todo)
           kind == del_fs[p]
           names == IF kind = "dir" THEN ReadDirNames(del_fs, p) ELSE <<>>
       IN  /\ IF DelRemoves(del_fs, p, kind)
              THEN /\ del_fs' = [del_fs EXCEPT ![p] = "none"]
                   /\ deletedDirectories' = deletedDirectories + 1
                   /\ deletedDirectoriesThisTime' = deletedDirectoriesThisTime + 1
              ELSE UNCHANGED <<del_fs, deletedDirectories, deletedDirectoriesThisTime>>
           /\ del_todo' = names \o Tail(del_todo)
    /\ UNCHANGED <<del_fs0, atLeastOnce, del_passes, del_pc>>

\* filepath.Walk returns
DelWalkReturn ==
    /\ del_pc = "walk"
    /\ del_todo = <<>>
    /\ del_pc' = "loop"
    /\ UNCHANGED <<del_fs0, del_fs, del_todo, deletedDirectories,
                   deletedDirectoriesThisTime, atLeastOnce, del_passes>>

(***************************************************************************)
(* helpers.GetUniqueTimestampedFilename(dir, filename).  currentTime is    *)
(* read once, so the candidates differ by their suffix only.               *)
(***************************************************************************)
\* the attempts bound written in the loop condition
AttemptsLimit == 50
\* the suffix of the candidate of the given attempt
Suffix(n) == IF n > 0 THEN <<"_", ToString(n)>> ELSE <<>>
\* candidate: "<time> - <filenameBase><suffix>.tar.gz"
Candidate(n) == <<"2006-01-02 15:04:05", " - ", "filenameBase">> \o Suffix(n) \o <<".tar.gz">>
\* filepath.Join(dir, name)
JoinDir(name) == <<"dir", "/">> \o name
\* FileExists(filepath.Join(dir, name)): nil when a regular file is there
FileExists(files, name) == IF name \in files THEN "nil" ELSE "file does not exist"

\* the condition of the for loop
UniqLoopContinue(found, n) == ~found \/ n > AttemptsLimit

UniqInit ==
    /\ uniq_dir \in {"exists", "missing", "uncreatable"}
    /\ \E k \in 0..MaxExisting :
         \E extra \in SUBSET {<<"unrelated">>, Candidate(k + 1)} :
            uniq_files = IF uniq_dir = "exists"
                         THEN {Candidate(i) : i \in 0..(k - 1)} \cup extra
                         ELSE {}
    /\ attempts = 0
    /\ uniqueNameFound = FALSE
    /\ uniqueFilename = <<>>
    /\ uniq_err = "nil"
    /\ uniq_pc = "start"

UniqIdle ==
    /\ uniq_dir = "exists"
    /\ uniq_files = {}
    /\ attempts = 0
    /\ uniqueNameFound = FALSE
    /\ uniqueFilename = <<>>
    /\ uniq_err = "nil"
    /\ uniq_pc = "idle"

\* create dir if necessary
UniqMkdir ==
    /\ uniq_pc = "start"
    /\ IF uniq_dir = "uncreatable"
       THEN /\ uniq_err' = "mkdir failed"
            /\ uniq_pc' = "done"
            /\ uniq_dir' = uniq_dir
       ELSE /\ uniq_dir' = "exists"
            /\ uniq_pc' = "loop"
            /\ uniq_err' = uniq_err
    /\ UNCHANGED <<uniq_files, attempts, uniqueNameFound, uniqueFilename>>

\* the loop condition holds: the body is entered
UniqEnterBody ==
    /\ uniq_pc = "loop"
    /\ UniqLoopContinue(uniqueNameFound, attempts)
    /\ uniq_pc' = "body"
    /\ UNCHANGED <<uniq_dir, uniq_files, attempts, uniqueNameFound, uniqueFilename, uniq_err>>

\* the loop condition fails: return
UniqReturn ==
    /\ uniq_pc = "loop"
    /\ ~UniqLoopContinue(uniqueNameFound, attempts)
    /\ uniq_pc' = "done"
    /\ UNCHANGED <<uniq_dir, uniq_files, attempts, uniqueNameFound, uniqueFilename, uniq_err>>

\* the loop body: the candidate of this attempt is kept, or the next is tried
UniqBody ==
    /\ uniq_pc = "body"
    /\ IF FileExists(uniq_files, Candidate(attempts)) # "nil"
       THEN /\ uniqueFilename' = JoinDir(Candidate(attempts))
            /\ uniqueNameFound' = TRUE
            /\ attempts' = attempts
       ELSE /\ attempts' = attempts + 1
            /\ UNCHANGED <<uniqueFilename, uniqueNameFound>>
    /\ uniq_pc' = "loop"
    /\ UNCHANGED <<uniq_dir, uniq_files, uniq_err>>

(***************************************************************************)
(* helpers.CopyFile and copyFileContents, over a file system of directory  *)
(* entries (path -> inode) and files (inode -> kind and contents).  Two    *)
(* paths may name the same inode (hard links, or src = dst).               *)
(***************************************************************************)
CopyPaths == {"p", "q"}
\* the inodes in use when CopyFile is called, and the one os.Create may allocate
OldInodes == {1, 2}
NewInode == 3
Bytes == {0, 1}
Contents == SeqsUpTo(Bytes, MaxLen)
Files == {[kind |-> "regular", data |-> d] : d \in Contents} \cup {[kind |-> "dir", data |-> <<>>]}
FreeInode == [kind |-> "free", data |-> <<>>]

\* os.Stat(path)
Stat(links, inodes, path) ==
    IF links[path] = 0 THEN [err |-> "not exist", ino |-> 0, kind |-> "none"]
    ELSE [err |-> "nil", ino |-> links[path], kind |-> inodes[links[path]].kind]

\* CopyFile's checks without the os.SameFile test
CopyFileChecksNoSameFile(links, inodes, src, dst) ==
    LET sfi == Stat(links, inodes, src)
        dfi == Stat(links, inodes, dst)
    IN  IF sfi.err # "nil" THEN [next |-> "return", err |-> sfi.err]
        ELSE IF sfi.kind # "regular"
        THEN [next |-> "return", err |-> "CopyFile: non-regular source file"]
        ELSE IF dfi.err # "nil" THEN [next |-> "copy", err |-> "nil"]
        ELSE IF dfi.kind # "regular"
        THEN [next |-> "return", err |-> "CopyFile: non-regular destination file"]
        ELSE [next |-> "copy", err |-> "nil"]
\* CopyFile up to the call of copyFileContents: return err, or go on and copy
CopyFileChecks(links, inodes, src, dst) ==
    LET sfi == Stat(links, inodes, src)
        dfi == Stat(links, inodes, dst)
    IN  IF sfi.err # "nil" THEN [next |-> "return", err |-> sfi.err]
        ELSE IF sfi.kind # "regular"
        THEN [next |-> "return", err |-> "CopyFile: non-regular source file"]
        ELSE IF dfi.err # "nil" THEN [next |-> "copy", err |-> "nil"]
        ELSE IF dfi.kind # "regular"
        THEN [next |-> "return", err |-> "CopyFile: non-regular destination file"]
        ELSE IF sfi.ino = dfi.ino THEN [next |-> "return", err |-> "nil"]
        ELSE [next |-> "copy", err |-> "nil"]

\* the digest of a file's contents (SHA-256 taken as free of collisions)
Sha256(data) == <<"sha256", Len(data), data>>
\* CalculateSHA256(filename)
CalculateSHA256(links, inodes, filename) ==
    IF links[filename] = 0 \/ inodes[links[filename]].kind # "regular"
    THEN [hash |-> <<>>, err |-> "cannot read"]
    ELSE [hash |-> Sha256(inodes[links[filename]].data), err |-> "nil"]

CpInit ==
    /\ cp_src \in CopyPaths
    /\ cp_dst \in CopyPaths
    /\ cp_links0 \in [CopyPaths -> OldInodes \cup {0}]
    /\ \E old \in [OldInodes -> Files] : cp_inodes0 = old @@ (NewInode :> FreeInode)
    /\ cp_links = cp_links0
    /\ cp_inodes = cp_inodes0
    /\ cp_in = 0
    /\ cp_out = 0
    /\ cp_off = 0
    /\ cp_err = "nil"
    /\ cp_pc = "stat"

CpIdle ==
    /\ cp_src = "p"
    /\ cp_dst = "p"
    /\ cp_links0 = <<>>
    /\ cp_inodes0 = <<>>
    /\ cp_links = <<>>
    /\ cp_inodes = <<>>
    /\ cp_in = 0
    /\ cp_out = 0
    /\ cp_off = 0
    /\ cp_err = "nil"
    /\ cp_pc = "idle"

\* CopyFile: the checks on src and dst
CopyFileStat ==
    /\ cp_pc = "stat"
    /\ LET c == CopyFileChecks(cp_links, cp_inodes, cp_src, cp_dst) IN
       /\ cp_err' = c.err
       /\ cp_pc' = IF c.next = "return" THEN "done" ELSE "open"
    /\ UNCHANGED <<cp_src, cp_dst, cp_links0, cp_inodes0, cp_links, cp_inodes, cp_in, cp_out, cp_off>>

\* copyFileContents: os.Open(src)
CopyOpen ==
    /\ cp_pc = "open"
    /\ \/ /\ cp_in' = cp_links[cp_src]
          /\ cp_pc' = "create"
          /\ cp_err' = "nil"
       \/ /\ cp_err' = "open failed"
          /\ cp_pc' = "done"
          /\ cp_in' = cp_in
    /\ UNCHANGED <<cp_src, cp_dst, cp_links0, cp_inodes0, cp_links, cp_inodes, cp_out, cp_off>>

\* copyFileContents: os.Create(dst) truncates dst, or creates it
CopyCreate ==
    /\ cp_pc = "create"
    /\ \/ /\ IF cp_links[cp_dst] # 0
             THEN /\ cp_out' = cp_links[cp_dst]
                  /\ cp_inodes' = [cp_inodes EXCEPT ![cp_links[cp_dst]].data = <<>>]
                  /\ cp_links' = cp_links
             ELSE /\ cp_out' = NewInode
                  /\ cp_inodes' = [cp_inodes EXCEPT ![NewInode] = [kind |-> "regular", data |-> <<>>]]
                  /\ cp_links' = [cp_links EXCEPT ![cp_dst] = NewInode]
          /\ cp_pc' = "copy"
          /\ cp_err' = "nil"
       \/ /\ cp_err' = "create failed"
          /\ cp_pc' = "done"
          /\ UNCHANGED <<cp_links, cp_inodes, cp_out>>
    /\ UNCHANGED <<cp_src, cp_dst, cp_links0, cp_inodes0, cp_in, cp_off>>

\* copyFileContents: io.Copy(out, in) moves the next byte, ends at the end of in, or fails
CopyBytes ==
    /\ cp_pc = "copy"
    /\ \/ /\ cp_off < Len(cp_inodes[cp_in].data)
          /\ cp_inodes' = [cp_inodes EXCEPT ![cp_out].data = Append(@, cp_inodes[cp_in].data[cp_off + 1])]
          /\ cp_off' = cp_off + 1
          /\ UNCHANGED <<cp_pc, cp_err>>
       \/ /\ cp_off >= Len(cp_inodes[cp_in].data)
          /\ cp_pc' = "sync"
          /\ UNCHANGED <<cp_inodes, cp_off, cp_err>>
       \/ /\ cp_err' = "copy failed"
          /\ cp_pc' = "done"
          /\ UNCHANGED <<cp_inodes, cp_off>>
    /\ UNCHANGED <<cp_src, cp_dst, cp_links0, cp_inodes0, cp_links, cp_in, cp_out>>

\* copyFileContents: out.Sync(), then the deferred out.Close() and in.Close()
CopySyncClose ==
    /\ cp_pc = "sync"
    /\ \E e \in {"nil", "sync failed", "close failed"} : cp_err' = e
    /\ cp_pc' = "done"
    /\ UNCHANGED <<cp_src, cp_dst, cp_links0, cp_inodes0, cp_links, cp_inodes, cp_in, cp_out, cp_off>>

(***************************************************************************)
(* helpers.StringInSlice and helpers.RemoveDuplicates                      *)
(***************************************************************************)
RECURSIVE StringInSliceIgnoringCaseFrom(_, _, _)
StringInSliceIgnoringCaseFrom(a, list, i) ==
    IF i > Len(list) THEN [index |-> -1, isIn |-> FALSE]
    ELSE IF ToLower(list[i]) = ToLower(a) THEN [index |-> i - 1, isIn |-> TRUE]
    ELSE StringInSliceIgnoringCaseFrom(a, list, i + 1)
\* the search comparing lower-cased strings
StringInSliceIgnoringCase(a, list) == StringInSliceIgnoringCaseFrom(a, list, 1)

RECURSIVE StringInSliceFrom(_, _, _)
\* the range loop of StringInSlice from the i-th element on (indices count from 0 in Go)
StringInSliceFrom(a, list, i) ==
    IF i > Len(list) THEN [index |-> -1, isIn |-> FALSE]
    ELSE IF list[i] = a THEN [index |-> i - 1, isIn |-> TRUE]
    ELSE StringInSliceFrom(a, list, i + 1)
\* StringInSlice(a, list)
StringInSlice(a, list) == StringInSliceFrom(a, list, 1)

RECURSIVE RemoveDuplicatesLoopKeepingEmpty(_, _, _, _)
\* the loop without the test x != ""
RemoveDuplicatesLoopKeepingEmpty(arr, found, i, j) ==
    IF i > Len(arr) THEN SubSeq(arr, 1, j)
    ELSE LET x == arr[i] IN
         IF x \notin found
         THEN RemoveDuplicatesLoopKeepingEmpty([arr EXCEPT ![j + 1] = arr[i]], found \cup {x}, i + 1, j + 1)
         ELSE RemoveDuplicatesLoopKeepingEmpty(arr, found, i + 1, j)

RECURSIVE RemoveDuplicatesLoop(_, _, _, _)
\* the loop of helpers.RemoveDuplicates: arr is the backing array, found the
\* map's keys, i the 1-based range index, j the number of elements kept
RemoveDuplicatesLoop(arr, found, i, j) ==
    IF i > Len(arr) THEN SubSeq(arr, 1, j)
    ELSE LET x == arr[i] IN
         IF x \notin found /\ x # <<>>
         THEN RemoveDuplicatesLoop([arr EXCEPT ![j + 1] = arr[i]], found \cup {x}, i + 1, j + 1)
         ELSE RemoveDuplicatesLoop(arr, found, i + 1, j)
\* helpers.RemoveDuplicates(&opts, others...): the value of *opts afterwards
RemoveDuplicates(opts, others) == RemoveDuplicatesLoop(opts, Elems(others), 1, 0)

Words == {<<>>, <<"o", "n", "e">>, <<"O", "n", "e">>, <<"t", "w", "o">>}

SlInit ==
    /\ sl_in \in SeqsUpTo(Words, MaxList)
    /\ sl_others \in {<<>>, << <<"o", "n", "e">> >>, << <<"t", "w", "o">>, <<>> >>}
    /\ sl_a \in Words
    /\ sl_out = sl_in
    /\ sl_outUi = sl_in
    /\ sl_calls = 0
    /\ sl_index = 0
    /\ sl_isIn = FALSE
    /\ sl_pc = "ready"

SlIdle ==
    /\ sl_in = <<>>
    /\ sl_others = <<>>
    /\ sl_a = <<>>
    /\ sl_out = <<>>
    /\ sl_outUi = <<>>
    /\ sl_calls = 0
    /\ sl_index = 0
    /\ sl_isIn = FALSE
    /\ sl_pc = "idle"

\* RemoveDuplicates(&options, others...) of both packages, a first and a second time
CallRemoveDuplicates ==
    /\ sl_pc # "idle"
    /\ sl_calls < 2
    /\ sl_out' = RemoveDuplicates(sl_out, sl_others)
    /\ sl_outUi' = UiRemoveDuplicates(sl_outUi, sl_others)
    /\ sl_calls' = sl_calls + 1
    /\ UNCHANGED <<sl_in, sl_others, sl_a, sl_index, sl_isIn, sl_pc>>

\* index, isIn = StringInSlice(a, list)
CallStringInSlice ==
    /\ sl_pc = "ready"
    /\ LET r == StringInSlice(sl_a, sl_in) IN
       /\ sl_index' = r.index
       /\ sl_isIn' = r.isIn
    /\ sl_pc' = "searched"
    /\ UNCHANGED <<sl_in, sl_others, sl_a, sl_out, sl_outUi, sl_calls>>

(***************************************************************************)
(* ui.runCommand: the main flow, the goroutine running the pager and the   *)
(* goroutine writing output to the pipe, over the unbuffered channels c    *)
(* and d.  A write to an io.Pipe returns once the reader has taken all of  *)
(* it, or fails once the pipe is closed; the pager may exit at any moment  *)
(* (it fails to start, the user quits, the input ends).  A runtime panic   *)
(* ends the program.                                                       *)
(***************************************************************************)
\* the errors cmd.Run may return
RunResults == {"nil", "exit status 1", "executable file not found"}

CmdInit ==
    /\ cmd_pcMain = "select"
    /\ cmd_pcPager = "run"
    /\ cmd_pcWriter = "write"
    /\ cmd_toWrite \in 1..MaxOutput
    /\ cmd_cClosed = FALSE
    /\ cmd_dClosed = FALSE
    /\ cmd_stdinClosed = FALSE
    /\ cmd_runResult = "none"
    /\ cmd_ret = "none"
    /\ cmd_panic = "none"

CmdIdle ==
    /\ cmd_pcMain = "idle"
    /\ cmd_pcPager = "idle"
    /\ cmd_pcWriter = "idle"
    /\ cmd_toWrite = 0
    /\ cmd_cClosed = FALSE
    /\ cmd_dClosed = FALSE
    /\ cmd_stdinClosed = FALSE
    /\ cmd_runResult = "none"
    /\ cmd_ret = "none"
    /\ cmd_panic = "none"

\* the pager reads a chunk of what io.WriteString is writing
PagerRead ==
    /\ cmd_panic = "none"
    /\ cmd_pcPager = "run"
    /\ cmd_pcWriter = "write"
    /\ ~cmd_stdinClosed
    /\ cmd_toWrite > 0
    /\ cmd_toWrite' = cmd_toWrite - 1
    /\ UNCHANGED <<cmd_pcMain, cmd_pcPager, cmd_pcWriter, cmd_cClosed, cmd_dClosed,
                   cmd_stdinClosed, cmd_runResult, cmd_ret, cmd_panic>>

\* pager goroutine: cmd.Run() returns, the goroutine blocks on c <- result
PagerExit ==
    /\ cmd_panic = "none"
    /\ cmd_pcPager = "run"
    /\ \E r \in RunResults : cmd_runResult' = r
    /\ cmd_pcPager' = "send"
    /\ UNCHANGED <<cmd_pcMain, cmd_pcWriter, cmd_toWrite, cmd_cClosed, cmd_dClosed,
                   cmd_stdinClosed, cmd_ret, cmd_panic>>

\* pager goroutine: the deferred close(c)
PagerClose ==
    /\ cmd_panic = "none"
    /\ cmd_pcPager = "close"
    /\ cmd_cClosed' = TRUE
    /\ cmd_pcPager' = "done"
    /\ UNCHANGED <<cmd_pcMain, cmd_pcWriter, cmd_toWrite, cmd_dClosed, cmd_stdinClosed,
                   cmd_runResult, cmd_ret, cmd_panic>>

\* writer goroutine: io.WriteString returns nil, the goroutine blocks on d <- err
WriterDone ==
    /\ cmd_panic = "none"
    /\ cmd_pcWriter = "write"
    /\ cmd_toWrite = 0
    /\ cmd_pcWriter' = "send"
    /\ UNCHANGED <<cmd_pcMain, cmd_pcPager, cmd_toWrite, cmd_cClosed, cmd_dClosed,
                   cmd_stdinClosed, cmd_runResult, cmd_ret, cmd_panic>>

\* writer goroutine: io.WriteString fails on the closed pipe, the function returns
WriterFail ==
    /\ cmd_panic = "none"
    /\ cmd_pcWriter = "write"
    /\ cmd_toWrite > 0
    /\ cmd_stdinClosed
    /\ cmd_pcWriter' = "close"
    /\ UNCHANGED <<cmd_pcMain, cmd_pcPager, cmd_toWrite, cmd_cClosed, cmd_dClosed,
                   cmd_stdinClosed, cmd_runResult, cmd_ret, cmd_panic>>

\* writer goroutine: d <- err on the closed channel d panics
WriterSendClosed ==
    /\ cmd_panic = "none"
    /\ cmd_pcWriter = "send"
    /\ cmd_dClosed
    /\ cmd_panic' = "send on closed channel"
    /\ UNCHANGED <<cmd_pcMain, cmd_pcPager, cmd_pcWriter, cmd_toWrite, cmd_cClosed,
                   cmd_dClosed, cmd_stdinClosed, cmd_runResult, cmd_ret>>

\* writer goroutine: the deferred close(d)
WriterClose ==
    /\ cmd_panic = "none"
    /\ cmd_pcWriter = "close"
    /\ IF cmd_dClosed
       THEN /\ cmd_panic' = "close of closed channel"
            /\ UNCHANGED <<cmd_dClosed, cmd_pcWriter>>
       ELSE /\ cmd_dClosed' = TRUE
            /\ cmd_pcWriter' = "done"
            /\ cmd_panic' = cmd_panic
    /\ UNCHANGED <<cmd_pcMain, cmd_pcPager, cmd_toWrite, cmd_cClosed, cmd_stdinClosed,
                   cmd_runResult, cmd_ret>>

\* main: case <-d of the select, a rendezvous with the writer (or d is closed)
MainSelectD ==
    /\ cmd_panic = "none"
    /\ cmd_pcMain = "select"
    /\ (cmd_pcWriter = "send" /\ ~cmd_dClosed) \/ cmd_dClosed
    /\ cmd_pcWriter' = IF cmd_pcWriter = "send" /\ ~cmd_dClosed THEN "close" ELSE cmd_pcWriter
    /\ cmd_pcMain' = "closeStdin"
    /\ UNCHANGED <<cmd_pcPager, cmd_toWrite, cmd_cClosed, cmd_dClosed, cmd_stdinClosed,
                   cmd_runResult, cmd_ret, cmd_panic>>

\* main: case <-c of the select, a rendezvous with the pager goroutine; the
\* value received is dropped
MainSelectC ==
    /\ cmd_panic = "none"
    /\ cmd_pcMain = "select"
    /\ cmd_pcPager = "send"
    /\ cmd_pcPager' = "close"
    /\ cmd_pcMain' = "closeD"
    /\ UNCHANGED <<cmd_pcWriter, cmd_toWrite, cmd_cClosed, cmd_dClosed, cmd_stdinClosed,
                   cmd_runResult, cmd_ret, cmd_panic>>

\* main: close(d) in case <-c
MainCloseD ==
    /\ cmd_panic = "none"
    /\ cmd_pcMain = "closeD"
    /\ IF cmd_dClosed
       THEN /\ cmd_panic' = "close of closed channel"
            /\ UNCHANGED <<cmd_dClosed, cmd_pcMain>>
       ELSE /\ cmd_dClosed' = TRUE
            /\ cmd_pcMain' = "closeStdin"
            /\ cmd_panic' = cmd_panic
    /\ UNCHANGED <<cmd_pcPager, cmd_pcWriter, cmd_toWrite, cmd_cClosed, cmd_stdinClosed,
                   cmd_runResult, cmd_ret>>

\* main: stdin.Close(), which returns nil for the write end of an io.Pipe
MainCloseStdin ==
    /\ cmd_panic = "none"
    /\ cmd_pcMain = "closeStdin"
    /\ cmd_stdinClosed' = TRUE
    /\ cmd_pcMain' = "recvC"
    /\ UNCHANGED <<cmd_pcPager, cmd_pcWriter, cmd_toWrite, cmd_cClosed, cmd_dClosed,
                   cmd_runResult, cmd_ret, cmd_panic>>

\* main: return <-c, a rendezvous with the pager goroutine, or the zero value
\* of the closed channel c
MainRecvC ==
    /\ cmd_panic = "none"
    /\ cmd_pcMain = "recvC"
    /\ \/ /\ cmd_pcPager = "send"
          /\ cmd_pcPager' = "close"
          /\ cmd_ret' = cmd_runResult
       \/ /\ cmd_cClosed
          /\ cmd_pcPager' = cmd_pcPager
          /\ cmd_ret' = "nil"
    /\ cmd_pcMain' = "returned"
    /\ UNCHANGED <<cmd_pcWriter, cmd_toWrite, cmd_cClosed, cmd_dClosed, cmd_stdinClosed,
                   cmd_runResult, cmd_panic>>

(***************************************************************************)
(* Specifications: one function at a time.                                 *)
(***************************************************************************)
IdleBut(f) ==
    /\ IF f = "sel" THEN TRUE ELSE SelIdle
    /\ IF f = "upd" THEN TRUE ELSE UpdIdle
    /\ IF f = "spin" THEN TRUE ELSE SpinIdle
    /\ IF f = "del" THEN TRUE ELSE DelIdle
    /\ IF f = "uniq" THEN TRUE ELSE UniqIdle
    /\ IF f = "cp" THEN TRUE ELSE CpIdle
    /\ IF f = "sl" THEN TRUE ELSE SlIdle
    /\ IF f = "cmd" THEN TRUE ELSE CmdIdle

UnchangedBut(f) ==
    /\ IF f = "sel" THEN TRUE ELSE UNCHANGED selVars
    /\ IF f = "upd" THEN TRUE ELSE UNCHANGED updVars
    /\ IF f = "spin" THEN TRUE ELSE UNCHANGED spinVars
    /\ IF f = "del" THEN TRUE ELSE UNCHANGED delVars
    /\ IF f = "uniq" THEN TRUE ELSE UNCHANGED uniqVars
    /\ IF f = "cp" THEN TRUE ELSE UNCHANGED cpVars
    /\ IF f = "sl" THEN TRUE ELSE UNCHANGED slVars
    /\ IF f = "cmd" THEN TRUE ELSE UNCHANGED cmdVars

InitSelect == SelInit /\ IdleBut("sel")
NextSelect == SelectOptionLoop /\ UnchangedBut("sel")
SpecSelect == InitSelect /\ [][NextSelect]_vars

InitUpdate == UpdInit /\ IdleBut("upd")
NextUpdate == UpdateValueLoop /\ UnchangedBut("upd")
SpecUpdate == InitUpdate /\ [][NextUpdate]_vars

InitSpin == SpinInit /\ IdleBut("spin")
NextSpin ==
    \/ Tick /\ UnchangedBut("spin")
    \/ SpinnerRange /\ UnchangedBut("spin")
    \/ WorkerCall /\ UnchangedBut("spin")
    \/ WorkerReturn /\ UnchangedBut("spin")
    \/ MainRecvTick /\ UnchangedBut("spin")
    \/ MainRecvResult /\ UnchangedBut("spin")
SpecSpin == InitSpin /\ [][NextSpin]_vars

\* f terminates, its goroutine runs, and select takes a case that stays ready:
\* it chooses at random among the ready cases, so it cannot pass over c2 for ever
SpinFairness ==
    /\ WF_vars(WorkerCall /\ UnchangedBut("spin"))
    /\ WF_vars(WorkerReturn /\ UnchangedBut("spin"))
    /\ WF_vars(MainRecvResult /\ UnchangedBut("spin"))
SpecSpinFair == InitSpin /\ [][NextSpin]_vars /\ SpinFairness

InitDelete == DelInit /\ IdleBut("del")
NextDelete ==
    \/ DelStartPass /\ UnchangedBut("del")
    \/ DelReturn /\ UnchangedBut("del")
    \/ DelVisit /\ UnchangedBut("del")
    \/ DelWalkReturn /\ UnchangedBut("del")
SpecDelete == InitDelete /\ [][NextDelete]_vars

InitUnique == UniqInit /\ IdleBut("uniq")
NextUnique ==
    \/ UniqMkdir /\ UnchangedBut("uniq")
    \/ UniqEnterBody /\ UnchangedBut("uniq")
    \/ UniqReturn /\ UnchangedBut("uniq")
    \/ UniqBody /\ UnchangedBut("uniq")
SpecUnique == InitUnique /\ [][NextUnique]_vars

InitCopy == CpInit /\ IdleBut("cp")
NextCopy ==
    \/ CopyFileStat /\ UnchangedBut("cp")
    \/ CopyOpen /\ UnchangedBut("cp")
    \/ CopyCreate /\ UnchangedBut("cp")
    \/ CopyBytes /\ UnchangedBut("cp")
    \/ CopySyncClose /\ UnchangedBut("cp")
SpecCopy == InitCopy /\ [][NextCopy]_vars

InitSlices == SlInit /\ IdleBut("sl")
NextSlices ==
    \/ CallRemoveDuplicates /\ UnchangedBut("sl")
    \/ CallStringInSlice /\ UnchangedBut("sl")
SpecSlices == InitSlices /\ [][NextSlices]_vars

InitCommand == CmdInit /\ IdleBut("cmd")
NextCommand ==
    \/ PagerRead /\ UnchangedBut("cmd")
    \/ PagerExit /\ UnchangedBut("cmd")
    \/ PagerClose /\ UnchangedBut("cmd")
    \/ WriterDone /\ UnchangedBut("cmd")
    \/ WriterFail /\ UnchangedBut("cmd")
    \/ WriterSendClosed /\ UnchangedBut("cmd")
    \/ WriterClose /\ UnchangedBut("cmd")
    \/ MainSelectD /\ UnchangedBut("cmd")
    \/ MainSelectC /\ UnchangedBut("cmd")
    \/ MainCloseD /\ UnchangedBut("cmd")
    \/ MainCloseStdin /\ UnchangedBut("cmd")
    \/ MainRecvC /\ UnchangedBut("cmd")
SpecCommand == InitCommand /\ [][NextCommand]_vars

(***************************************************************************)
(* Claims about SelectOption                                               *)
(***************************************************************************)
\* C1: SelectOption returns after at most 11 prompt iterations; every iteration
\* that does not return adds exactly one to the error count; it returns the
\* empty value with the error "Invalid choice." exactly when the count exceeds
\* 10, that is on the 11th error and never earlier.
SelectOptionBoundedErrors ==
    /\ sel_iters <= 11
    /\ sel_pc = "prompt" => sel_errs = sel_iters
    /\ sel_pc = "returned" =>
         /\ (sel_reterr = invalidChoice) <=> (sel_errs > 10)
         /\ sel_reterr = invalidChoice => sel_ret = <<>> /\ sel_errs = 11 /\ sel_iters = 11
         /\ sel_reterr # invalidChoice => sel_errs = sel_iters - 1

\* C1 witness: the 11th failed answer aborts the selection
SelectOptionAborted ==
    sel_pc = "returned" /\ sel_reterr = invalidChoice /\ sel_iters = 11 /\ sel_errs = 11

RECURSIVE FirstOccurrences(_, _)
\* the distinct non-empty strings of s that are not in others, in the order of
\* their first occurrence (stated from the right end of s)
FirstOccurrences(s, others) ==
    IF s = <<>> THEN <<>>
    ELSE LET front == SubSeq(s, 1, Len(s) - 1)
             x == s[Len(s)]
         IN  IF x = <<>> \/ x \in others \/ x \in Elems(front)
             THEN FirstOccurrences(front, others)
             ELSE Append(FirstOccurrences(front, others), x)

\* an option with every local/online tag taken out
StripTags(o) == ReplaceAll(ReplaceAll(o, CyanBold(LocalTag)), YellowBold(OnlineTag))
\* the same, with the blanks around the remaining text removed as well
StripTagsAndTrim(o) == TrimSpace(StripTags(o))

\* the outcome of the last answer read, an option being returned as Strip(option)
SelectOptionOutcome(Strip(_)) ==
    LET shown == FirstOccurrences(sel_input, {})
        a == Atoi(sel_choice)
        inRange == a.err = "nil" /\ 1 <= a.val /\ a.val <= Len(shown)
    IN  sel_iters > 0 =>
        /\ inRange =>
             sel_pc = "returned" /\ sel_ret = Strip(shown[a.val]) /\ sel_reterr = "nil"
        /\ sel_choice \in {<<"B">>, <<"b">>} =>
             sel_pc = "returned" /\ sel_ret = <<>> /\ sel_reterr = "nil"
        /\ sel_choice \in {<<"A">>, <<"a">>} =>
             sel_pc = "returned" /\ sel_ret = <<>> /\ sel_reterr = userAborted
        /\ (a.err = "nil" /\ ~inRange) =>
             \/ sel_pc = "prompt" /\ sel_errs = sel_iters
             \/ sel_pc = "returned" /\ sel_ret = <<>> /\ sel_reterr = invalidChoice

\* C10 (as stated): a numeric answer k in 1..number of displayed options returns
\* the k-th displayed option with its local/online tag removed and a nil error; B
\* or b returns the empty value with a nil error; A or a returns the empty value
\* with "User aborted."; a number outside the range is an invalid choice.
SelectOptionMapsAnswers == SelectOptionOutcome(StripTags)

\* C10 (amended): as above, the k-th displayed option being returned with its
\* tags removed and the blanks around the remaining text trimmed.
SelectOptionMapsAnswersTrimmed == SelectOptionOutcome(StripTagsAndTrim)

\* C10 witness: a number picked a displayed option whose tag was removed
SelectOptionPickedTagged ==
    LET shown == FirstOccurrences(sel_input, {})
        a == Atoi(sel_choice)
    IN  /\ sel_pc = "returned" /\ sel_reterr = "nil"
        /\ a.err = "nil" /\ 1 <= a.val /\ a.val <= Len(shown)
        /\ a.val = 2
        /\ sel_ret # shown[a.val]
        /\ sel_ret = <<"y">>

(***************************************************************************)
(* Claims about UpdateValue                                                *)
(***************************************************************************)
\* C2: UpdateValue is a bounded retry loop: every attempt that fails to produce
\* a value (an answer other than e/k, or an edit whose confirmation is declined)
\* counts toward the error bound, and once more than 10 attempts have failed it
\* has aborted with the empty value and the error "Invalid choice.".
UpdateValueBoundedRetries ==
    upd_failed > 10 =>
        upd_pc = "returned" /\ upd_ret = <<>> /\ upd_reterr = invalidChoice

(***************************************************************************)
(* Claims about SpinWhileThingsHappen                                      *)
(***************************************************************************)
\* C3: SpinWhileThingsHappen runs f exactly once; it returns only after f has
\* returned and its result was delivered, and it returns f's result (nil for
\* nil, f's error otherwise); ticks received before never make it return nor
\* change the returned value.
SpinReturnsResultOfF ==
    /\ fCalls <= 1
    /\ spin_pcMain = "returned" =>
         /\ fCalls = 1
         /\ spin_pcWorker = "done"
         /\ fResult \in FResults
         /\ spin_ret = fResult
    /\ spin_pcMain = "select" => spin_ret = "none" /\ ~functionDone

\* C3 witness: f failed after ticks were shown, and its error was returned
SpinReturnedErrorAfterTicks ==
    spin_pcMain = "returned" /\ fResult = "f failed" /\ spin_ret = "f failed" /\ frame = 3

\* C11: if f terminates, SpinWhileThingsHappen eventually returns: under a fair
\* choice between the tick channel and the result channel no stream of ticks
\* keeps the result from being received, and the loop exits on the first result
\* received.
SpinEventuallyReturns ==
    /\ <>(spin_pcMain = "returned")
    /\ [][(spin_pcWorker = "send" /\ spin_pcWorker' = "done") => spin_pcMain' = "returned"]_vars

\* C11 witness: the result was received after ticks had been shown while f ran
\* and with a further tick waiting on c1
SpinReturnedPastPendingTick ==
    /\ spin_pcMain = "returned"
    /\ spin_pcWorker = "done"
    /\ fResult = "nil"
    /\ frame = 5
    /\ spin_pcSpinner = "send"

\* C13: once SpinWhileThingsHappen has returned, every goroutine it started has
\* ended or will end: the worker has delivered its result and exited, and the
\* spinner goroutine is not blocked sending a tick on c1, which nobody receives
\* any more.
SpinGoroutinesEnd ==
    spin_pcMain = "returned" =>
        /\ spin_pcWorker = "done"
        /\ spin_pcSpinner # "send"

(***************************************************************************)
(* Claims about DeleteEmptyFolders                                         *)
(***************************************************************************)
\* whether a file stands at p or below
ContainsFile(fs, p) == \E q \in Subtree(p) : fs[q] = "file"
\* the tree fs with every directory other than root that contains no file removed
WithoutEmptyFolders(fs) ==
    [p \in Paths |-> IF p # root /\ fs[p] = "dir" /\ ~ContainsFile(fs, p) THEN "none" ELSE fs[p]]

\* C4: when DeleteEmptyFolders returns, the tree under root is the initial tree
\* with every directory other than root that transitively contains no file
\* removed: no empty directory remains at any depth, root is as it was, every
\* file and every directory containing a file is untouched; and the pass loop
\* terminates (a tree nested Depth deep needs at most Depth + 1 passes).
DeleteEmptyFoldersResult ==
    /\ del_pc = "done" =>
         /\ del_fs = WithoutEmptyFolders(del_fs0)
         /\ \A p \in Paths \ {root} : del_fs[p] = "dir" => ~IsDirectoryEmpty(del_fs, p)
         /\ del_fs[root] = del_fs0[root]
         /\ \A p \in Paths : ContainsFile(del_fs0, p) => del_fs[p] = del_fs0[p]
         /\ deletedDirectories = Cardinality({p \in Paths : del_fs0[p] # del_fs[p]})
    /\ del_pc # "idle" => del_passes <= Depth + 1

\* C4 witness: directories nested two deep, holding no file, were removed over
\* three passes, beside a file that was kept
DeletedNestedFolders ==
    /\ del_pc = "done"
    /\ del_passes = 3
    /\ del_fs0[<<"a">>] = "dir" /\ del_fs0[<<"a", "a">>] = "dir"
    /\ del_fs[<<"a">>] = "none" /\ del_fs[<<"a", "a">>] = "none"
    /\ del_fs[<<"b">>] = "dir" /\ del_fs[<<"b", "a">>] = "file"

(***************************************************************************)
(* Claims about GetUniqueTimestampedFilename                               *)
(***************************************************************************)
\* C5: GetUniqueTimestampedFilename terminates for every finite set of files in
\* dir, also when the unsuffixed candidate and those with suffixes _1 .. _50 and
\* beyond exist: the first candidate with no existing file ends the loop (the
\* body is not entered again once a unique name is found), and the path returned
\* is inside dir and names no existing file.
UniqueFilenameFirstFreeReturned ==
    /\ uniq_pc = "body" => ~uniqueNameFound
    /\ (uniq_pc = "done" /\ uniq_err = "nil") =>
         \E n \in 0..(MaxExisting + 1) :
            /\ uniqueFilename = JoinDir(Candidate(n))
            /\ Candidate(n) \notin uniq_files
            /\ \A i \in 0..(n - 1) : Candidate(i) \in uniq_files

(***************************************************************************)
(* Claims about CopyFile                                                   *)
(***************************************************************************)
\* whether path is a regular file in the given file system
IsRegular(links, inodes, path) == links[path] # 0 /\ inodes[links[path]].kind = "regular"
\* the contents of the regular file at path
DataAt(links, inodes, path) == inodes[links[path]].data

\* C6: after CopyFile(src, dst) returns nil with src a regular file, dst is a
\* regular file with the contents of src (same SHA-256), whether dst did not
\* exist or was a regular file, and src is unchanged; when src and dst are the
\* same file it returns success and leaves the contents unchanged; when src is
\* not a regular file or dst exists and is not a regular file it returns an error
\* and modifies nothing.
CopyFileResult ==
    LET srcRegular == IsRegular(cp_links0, cp_inodes0, cp_src)
        dstOther == cp_links0[cp_dst] # 0 /\ cp_inodes0[cp_links0[cp_dst]].kind # "regular"
        sameFile == srcRegular /\ cp_links0[cp_src] = cp_links0[cp_dst]
    IN  /\ (cp_pc = "done" /\ cp_err = "nil" /\ srcRegular) =>
             /\ IsRegular(cp_links, cp_inodes, cp_dst)
             /\ DataAt(cp_links, cp_inodes, cp_dst) = DataAt(cp_links0, cp_inodes0, cp_src)
             /\ CalculateSHA256(cp_links, cp_inodes, cp_dst)
                  = CalculateSHA256(cp_links0, cp_inodes0, cp_src)
             /\ cp_links[cp_src] = cp_links0[cp_src]
             /\ cp_inodes[cp_links[cp_src]] = cp_inodes0[cp_links0[cp_src]]
        /\ (cp_pc \notin {"idle", "stat"} /\ sameFile) =>
             cp_pc = "done" /\ cp_err = "nil" /\ cp_links = cp_links0 /\ cp_inodes = cp_inodes0
        /\ (cp_pc # "idle" /\ (~srcRegular \/ dstOther)) =>
             /\ cp_links = cp_links0 /\ cp_inodes = cp_inodes0
             /\ cp_pc \in {"stat", "done"}
             /\ cp_pc = "done" => cp_err # "nil"

\* C6 witness: the copy replaced the different, longer contents of an existing dst
CopiedOverExistingFile ==
    /\ cp_pc = "done" /\ cp_err = "nil"
    /\ cp_src # cp_dst
    /\ IsRegular(cp_links0, cp_inodes0, cp_dst)
    /\ DataAt(cp_links0, cp_inodes0, cp_dst) = <<1, 1>>
    /\ DataAt(cp_links0, cp_inodes0, cp_src) = <<0>>
    /\ DataAt(cp_links, cp_inodes, cp_dst) = <<0>>

(***************************************************************************)
(* Claims about the string-slice helpers                                   *)
(***************************************************************************)
\* C7: after RemoveDuplicates(options, others...) options holds exactly the
\* distinct non-empty strings of the input that are not among others, each once,
\* in the order of their first occurrence; a second application with the same
\* others changes nothing; the copies of package ui and of package helpers agree.
RemoveDuplicatesResult ==
    sl_calls >= 1 =>
        /\ sl_out = FirstOccurrences(sl_in, Elems(sl_others))
        /\ sl_outUi = sl_out
        /\ Elems(sl_out) = (Elems(sl_in) \ Elems(sl_others)) \ {<<>>}
        /\ Cardinality(Elems(sl_out)) = Len(sl_out)

\* C7 witness: applied twice to a slice with a duplicate, an empty string and a
\* string of others
RemovedDuplicatesTwice ==
    /\ sl_calls = 2
    /\ sl_in = << <<"t", "w", "o">>, <<>>, <<"t", "w", "o">> >>
    /\ sl_others = << <<"o", "n", "e">> >>
    /\ sl_out = << <<"t", "w", "o">> >>

\* C8: StringInSlice(a, list) returns (i, true) with i the smallest index whose
\* element equals a exactly, and (-1, false) when no element equals a exactly,
\* in particular when one differs from a in letter case only.
StringInSliceResult ==
    sl_pc = "searched" =>
        LET exact == {i \in 1..Len(sl_in) : sl_in[i] = sl_a} IN
        IF exact # {}
        THEN /\ sl_isIn
             /\ sl_index + 1 \in exact
             /\ \A i \in exact : sl_index + 1 <= i
        ELSE sl_index = -1 /\ ~sl_isIn

\* C8 witness: "One" is not found in a slice that holds "one"
StringNotFoundForCase ==
    /\ sl_pc = "searched"
    /\ sl_a = <<"O", "n", "e">>
    /\ <<"o", "n", "e">> \in Elems(sl_in)
    /\ sl_index = -1 /\ ~sl_isIn

(***************************************************************************)
(* Claims about runCommand                                                 *)
(***************************************************************************)
\* C9: runCommand returns only after cmd.Run has returned, and the value it
\* returns is the error value cmd.Run returned, in every interleaving, also when
\* the user quits the pager before all output has been written.
RunCommandReturnsPagerResult ==
    cmd_pcMain = "returned" =>
        /\ cmd_pcPager \in {"close", "done"}
        /\ cmd_ret = cmd_runResult

\* whether a goroutine is blocked on a channel that the main flow, having
\* returned, will never serve
CmdBlockedForEver ==
    /\ cmd_pcMain = "returned"
    /\ \/ cmd_pcPager = "send"
       \/ cmd_pcWriter = "send" /\ ~cmd_dClosed

\* C12: in no interleaving of runCommand is channel d closed twice or sent on
\* after it was closed (the program does not panic), and no goroutine stays
\* blocked on a channel operation once runCommand has returned.
RunCommandChannelsSafe ==
    /\ cmd_panic = "none"
    /\ ~CmdBlockedForEver

====
